---- MODULE Spec2Model ----
(***************************************************************************)
(* Model of test_udp_host.py, the UDP echo server used to test ThunderOS   *)
(* networking.  One process, one socket.  The program counter pc follows   *)
(* the statements of the script; the operator's interrupt (SIGINT, raised  *)
(* by Python as KeyboardInterrupt between two statements or inside the     *)
(* blocking recvfrom) is an action of its own, delivered at most once.     *)
(*                                                                         *)
(* Byte strings are kept run-length encoded: a payload is a sequence of    *)
(* runs [b |-> byte, n |-> repetitions] in which adjacent runs have        *)
(* different bytes and n > 0, so that a payload of 1024 or 1025 bytes is   *)
(* a value of one or two runs.  Decoded text is a sequence of runs         *)
(* [c |-> code point, n |-> repetitions] in the same way.                  *)
(***************************************************************************)
EXTENDS Integers, Sequences, FiniteSets, TLC

VARIABLES
    argv,          \* sys.argv[1:], each argument a sequence of characters
    pc,            \* the statement about to run
    port,          \* the local `port` of __main__ / udp_echo_server
    sock,          \* "none", "open" (created), "bound", "closed" (sock.close() ran)
    boundAddr,     \* the address the kernel bound the socket to, or NoAddr
    bindCalls,     \* every address passed to sock.bind, in order
    packet_count,  \* the local counter of udp_echo_server
    data,          \* the local `data` (bytes returned by recvfrom)
    addr,          \* the local `addr` (source of the datagram)
    delivered,     \* datagrams the network stack handed to recvfrom, in order
    sent,          \* datagrams handed to sendto, in order
    out,           \* what was printed on stdout, in order
    interrupted,   \* the operator's interrupt has been delivered
    caught,        \* the except KeyboardInterrupt clause has been entered
    exc,           \* the exception currently propagating, or "none"
    status         \* the exit status once pc = "exited", -1 before

vars == <<argv, pc, port, sock, boundAddr, bindCalls, packet_count, data, addr,
          delivered, sent, out, interrupted, caught, exc, status>>

(***************************************************************************)
(* Bounds and program constants.                                           *)
(***************************************************************************)
\* number of datagrams the network delivers in a run
MaxPackets == 2

\* the bufsize argument of sock.recvfrom
BUFSIZE == 1024

\* the port used when no argument is given
DEFAULT_PORT == 9999

\* the address the socket is bound to
WILDCARD == "0.0.0.0"

NoPort == 0 - 1
NoAddr == [host |-> "", port |-> -1]
NoData == <<[b |-> -1, n |-> 1]>>

\* U+FFFD, what errors='replace' substitutes for an undecodable byte
REPLACEMENT == 65533

(***************************************************************************)
(* Byte strings.                                                           *)
(***************************************************************************)
Run(b, n) == [b |-> b, n |-> n]

RECURSIVE PLen(_)
\* len(data)
PLen(p) == IF p = <<>> THEN 0 ELSE p[1].n + PLen(Tail(p))

RECURSIVE Take(_, _)
\* the first k bytes of p
Take(p, k) ==
    IF p = <<>> \/ k <= 0 THEN <<>>
    ELSE IF p[1].n <= k THEN <<p[1]>> \o Take(Tail(p), k - p[1].n)
    ELSE <<Run(p[1].b, k)>>

\* recvfrom with an off-by-one buffer
recvfromShort(payload, bufsize) == Take(payload, bufsize - 1)

\* sock.recvfrom(bufsize): a datagram longer than the buffer is cut to it
recvfrom(payload, bufsize) == Take(payload, bufsize)

(***************************************************************************)
(* bytes.decode('utf-8', errors=...).  Covers the one- and two-byte forms; *)
(* the byte values used below contain no three- or four-byte lead.         *)
(***************************************************************************)
IsAscii(b) == b >= 0 /\ b < 128
IsCont(b)  == b >= 128 /\ b < 192
IsLead2(b) == b >= 194 /\ b < 224

\* prepend n copies of code point c to text t, keeping t run-length canonical
Emit(c, n, t) ==
    IF t # <<>> /\ t[1].c = c
    THEN <<[c |-> c, n |-> n + t[1].n]>> \o Tail(t)
    ELSE <<[c |-> c, n |-> n]>> \o t

\* p without its first byte
DropByte(p) ==
    IF p[1].n > 1 THEN <<Run(p[1].b, p[1].n - 1)>> \o Tail(p) ELSE Tail(p)

RECURSIVE DecodeReplace(_)
DecodeReplace(p) ==
    IF p = <<>> THEN <<>>
    ELSE LET b == p[1].b
             n == p[1].n
         IN  IF IsAscii(b) THEN Emit(b, n, DecodeReplace(Tail(p)))
             ELSE IF IsLead2(b) THEN
                 IF n > 1
                 THEN \* a lead followed by the same lead: the first n-1 are invalid
                      Emit(REPLACEMENT, n - 1, DecodeReplace(<<Run(b, 1)>> \o Tail(p)))
                 ELSE IF Len(p) > 1 /\ IsCont(p[2].b)
                 THEN Emit((b - 192) * 64 + (p[2].b - 128), 1,
                           DecodeReplace(DropByte(Tail(p))))
                 ELSE Emit(REPLACEMENT, 1, DecodeReplace(Tail(p)))
             ELSE \* a continuation byte or 0xC0, 0xC1, 0xF5..0xFF as start byte
                  Emit(REPLACEMENT, n, DecodeReplace(Tail(p)))

\* the payload is well-formed UTF-8
Utf8Valid(p) == \A i \in 1..Len(DecodeReplace(p)) : DecodeReplace(p)[i].c # REPLACEMENT

\* the error policy of a decode that raises on malformed input
DecodeErrorsStrict == "strict"

\* the errors= argument of data.decode
DecodeErrors == "replace"

\* data.decode('utf-8', errors): the text, or UnicodeDecodeError
decode(p, errors) ==
    IF errors = "strict" /\ ~Utf8Valid(p)
    THEN [ok |-> FALSE, text |-> <<>>]
    ELSE [ok |-> TRUE, text |-> DecodeReplace(p)]

(***************************************************************************)
(* int(sys.argv[1]).  An argument is a sequence of characters; the         *)
(* characters used below are digits, signs and letters (int() would also   *)
(* strip blanks and accept underscores between digits).                    *)
(***************************************************************************)
Digits == {"0", "1", "2", "3", "4", "5", "6", "7", "8", "9"}

DigitVal ==
    ("0" :> 0) @@ ("1" :> 1) @@ ("2" :> 2) @@ ("3" :> 3) @@ ("4" :> 4) @@
    ("5" :> 5) @@ ("6" :> 6) @@ ("7" :> 7) @@ ("8" :> 8) @@ ("9" :> 9)

RECURSIVE DigitsValue(_, _)
DigitsValue(s, acc) ==
    IF s = <<>> THEN acc ELSE DigitsValue(Tail(s), acc * 10 + DigitVal[s[1]])

\* int(s): the value, or ValueError (ok = FALSE)
PyInt(s) ==
    LET signed == s # <<>> /\ s[1] \in {"-", "+"}
        body   == IF signed THEN Tail(s) ELSE s
    IN  IF body # <<>> /\ \A i \in 1..Len(body) : body[i] \in Digits
        THEN [ok |-> TRUE,
              val |-> IF signed /\ s[1] = "-" THEN 0 - DigitsValue(body, 0)
                      ELSE DigitsValue(body, 0)]
        ELSE [ok |-> FALSE, val |-> 0]

\* port = int(sys.argv[1]) if len(sys.argv) > 1 else 9999
ParsePort(args) ==
    IF Len(args) > 0 THEN PyInt(args[1]) ELSE [ok |-> TRUE, val |-> DEFAULT_PORT]

\* sock.bind raises OverflowError unless the port is in 0..65535
PortInRange(p) == p >= 0 /\ p <= 65535

\* the address passed to sock.bind
BindTarget(p) == [host |-> WILDCARD, port |-> p]

(***************************************************************************)
(* The environment: command lines, datagrams, ephemeral ports.             *)
(***************************************************************************)
Argvs ==
    { <<>>,
      << <<"8", "0", "8", "0">> >>,
      << <<"8", "0", "8", "0">>, <<"1", "2", "3", "4">> >>,
      << <<"0">> >>,
      << <<"-", "5">> >>,
      << <<"7", "0", "0", "0", "0">> >>,
      << <<"a", "b", "c">> >> }

\* ports the kernel may pick when asked to bind port 0
EphemeralPorts == {32768, 60999}

Sources == { [host |-> "10.0.2.15", port |-> 1234],
             [host |-> "127.0.0.1", port |-> 40000] }

\* 0x41 'A', 0xC3 0xA9 (U+00E9 in UTF-8), 0xFF (never valid in UTF-8)
Payloads ==
    { <<>>,
      <<Run(65, 1)>>,
      <<Run(255, 1)>>,
      <<Run(195, 1), Run(169, 1)>>,
      <<Run(65, 1), Run(195, 1)>>,
      <<Run(65, BUFSIZE)>>,
      <<Run(65, BUFSIZE - 1), Run(195, 1), Run(169, 1)>>,
      <<Run(65, BUFSIZE), Run(255, 1)>> }

Datagrams == [payload : Payloads, addr : Sources]

(***************************************************************************)
(* Initial state: the interpreter is about to run the __main__ block.      *)
(***************************************************************************)
Init ==
    /\ argv \in Argvs
    /\ pc = "main"
    /\ port = NoPort
    /\ sock = "none"
    /\ boundAddr = NoAddr
    /\ bindCalls = <<>>
    /\ packet_count = 0
    /\ data = NoData
    /\ addr = NoAddr
    /\ delivered = <<>>
    /\ sent = <<>>
    /\ out = <<>>
    /\ interrupted = FALSE
    /\ caught = FALSE
    /\ exc = "none"
    /\ status = 0 - 1

\* an exception leaves the interpreter uncaught: traceback, non-zero status
Die(e) ==
    /\ exc' = e
    /\ pc' = "exited"
    /\ status' = IF e = "KeyboardInterrupt" THEN 130 ELSE 1

\* a handler written as `except (KeyboardInterrupt, Exception)`
RaiseCaught(e) ==
    /\ exc' = e
    /\ pc' = "except"

\* an exception raised inside the try block that no except clause matches
Raise(e) ==
    /\ exc' = e
    /\ pc' = "finally"

\* line 47
Main ==
    /\ pc = "main"
    /\ LET r == ParsePort(argv)
       IN  IF r.ok
           THEN /\ port' = r.val
                /\ pc' = "socket"
                /\ UNCHANGED <<exc, status>>
           ELSE /\ Die("ValueError")
                /\ UNCHANGED port
    /\ UNCHANGED <<argv, sock, boundAddr, bindCalls, packet_count, data, addr,
                   delivered, sent, out, interrupted, caught>>

\* line 17
Socket ==
    /\ pc = "socket"
    /\ sock' = "open"
    /\ pc' = "bind"
    /\ UNCHANGED <<argv, port, boundAddr, bindCalls, packet_count, data, addr,
                   delivered, sent, out, interrupted, caught, exc, status>>

\* line 18, the bind succeeds
BindOk ==
    /\ pc = "bind"
    /\ LET target == BindTarget(port)
       IN  /\ PortInRange(target.port)
           /\ bindCalls' = Append(bindCalls, target)
           /\ \E p \in (IF target.port = 0 THEN EphemeralPorts ELSE {target.port}) :
                  boundAddr' = [host |-> target.host, port |-> p]
    /\ sock' = "bound"
    /\ pc' = "banner"
    /\ UNCHANGED <<argv, port, packet_count, data, addr, delivered, sent, out,
                   interrupted, caught, exc, status>>

\* a bind that, on failure, falls back to the next port and tries again
BindFailRetry ==
    /\ pc = "bind"
    /\ bindCalls' = Append(bindCalls, BindTarget(port))
    /\ IF Len(bindCalls) = 0 /\ PortInRange(port + 1)
       THEN /\ port' = port + 1
            /\ UNCHANGED <<pc, exc, status>>
       ELSE /\ Die("OSError")
            /\ UNCHANGED port
    /\ UNCHANGED <<argv, sock, boundAddr, packet_count, data, addr,
                   delivered, sent, out, interrupted, caught>>

\* line 18, the bind raises: OverflowError for a port outside 0..65535,
\* OSError when the port is in use or needs a privilege the user lacks
BindFail ==
    /\ pc = "bind"
    /\ bindCalls' = Append(bindCalls, BindTarget(port))
    /\ Die(IF PortInRange(port) THEN "OSError" ELSE "OverflowError")
    /\ UNCHANGED <<argv, port, sock, boundAddr, packet_count, data, addr,
                   delivered, sent, out, interrupted, caught>>

\* lines 20-22
Banner ==
    /\ pc = "banner"
    /\ out' = Append(out, [kind |-> "banner", host |-> WILDCARD, port |-> port])
    /\ pc' = "init"
    /\ UNCHANGED <<argv, port, sock, boundAddr, bindCalls, packet_count, data, addr,
                   delivered, sent, interrupted, caught, exc, status>>

\* line 24; the next statement is the first one inside try
InitCount ==
    /\ pc = "init"
    /\ packet_count' = 0
    /\ pc' = "recv"
    /\ UNCHANGED <<argv, port, sock, boundAddr, bindCalls, data, addr,
                   delivered, sent, out, interrupted, caught, exc, status>>

\* line 29, a datagram arrives
Recv ==
    /\ pc = "recv"
    /\ Len(delivered) < MaxPackets
    /\ \E d \in Datagrams :
          /\ delivered' = Append(delivered, d)
          /\ data' = recvfrom(d.payload, BUFSIZE)
          /\ addr' = d.addr
    /\ pc' = "count"
    /\ UNCHANGED <<argv, port, sock, boundAddr, bindCalls, packet_count,
                   sent, out, interrupted, caught, exc, status>>

\* line 29, recvfrom raises OSError
RecvError ==
    /\ pc = "recv"
    /\ Raise("OSError")
    /\ UNCHANGED <<argv, port, sock, boundAddr, bindCalls, packet_count, data, addr,
                   delivered, sent, out, interrupted, caught, status>>

\* a counter that restarts with every datagram
NextCountReset(c) == 1

\* packet_count += 1
NextCount(c) == c + 1

\* line 30
Count ==
    /\ pc = "count"
    /\ packet_count' = NextCount(packet_count)
    /\ pc' = "log"
    /\ UNCHANGED <<argv, port, sock, boundAddr, bindCalls, data, addr,
                   delivered, sent, out, interrupted, caught, exc, status>>

\* a block header that numbers the packets from zero
LogSeqZeroBased(c) == c - 1

\* the number printed in "[Packet #{packet_count}]"
LogSeq(c) == c

\* a loop that takes an empty datagram for the end of the stream and stops
LogStopOnEmpty ==
    /\ pc = "log"
    /\ IF data = <<>>
       THEN /\ pc' = "finally"
            /\ UNCHANGED out
       ELSE /\ out' = Append(out, [kind |-> "packet", seq |-> LogSeq(packet_count),
                                   host |-> addr.host, port |-> addr.port,
                                   size |-> PLen(data), text |-> DecodeReplace(data)])
            /\ pc' = "send"
    /\ UNCHANGED <<argv, port, sock, boundAddr, bindCalls, packet_count, data, addr,
                   delivered, sent, interrupted, caught, exc, status>>

\* lines 32-35: the packet block, or UnicodeDecodeError from line 35
Log ==
    /\ pc = "log"
    /\ LET r == decode(data, DecodeErrors)
       IN  IF r.ok
           THEN /\ out' = Append(out, [kind |-> "packet", seq |-> LogSeq(packet_count),
                                       host |-> addr.host, port |-> addr.port,
                                       size |-> PLen(data), text |-> r.text])
                /\ pc' = "send"
                /\ UNCHANGED exc
           ELSE /\ Raise("UnicodeDecodeError")
                /\ UNCHANGED out
    /\ UNCHANGED <<argv, port, sock, boundAddr, bindCalls, packet_count, data, addr,
                   delivered, sent, interrupted, caught, status>>

\* an echo of the text as it was logged, encoded again, instead of the bytes
\* (code points below 128 are one byte, U+0080..U+07FF two, U+FFFD is EF BF BD)
RECURSIVE Encode(_)
Encode(t) ==
    IF t = <<>> THEN <<>>
    ELSE LET c == t[1].c
             n == t[1].n
             rest == Encode(Tail(t))
         IN  IF c < 128 THEN <<Run(c, n)>> \o rest
             ELSE IF c < 2048
             THEN <<Run(192 + (c \div 64), 1), Run(128 + (c % 64), 1)>> \o
                  (IF n > 1 THEN Encode(<<[c |-> c, n |-> n - 1]>>) ELSE <<>>) \o rest
             ELSE <<Run(239, 1), Run(191, 1), Run(189, 1)>> \o
                  (IF n > 1 THEN Encode(<<[c |-> c, n |-> n - 1]>>) ELSE <<>>) \o rest

EchoReencoded(d, a) == [payload |-> Encode(DecodeReplace(d)), addr |-> a]

\* the datagram sock.sendto(data, addr) puts on the wire
Echo(d, a) == [payload |-> d, addr |-> a]

\* a loop with the sendto line duplicated
SendTwice ==
    /\ pc = "send"
    /\ sent' = sent \o <<Echo(data, addr), Echo(data, addr)>>
    /\ pc' = "confirm"
    /\ UNCHANGED <<argv, port, sock, boundAddr, bindCalls, packet_count, data, addr,
                   delivered, out, interrupted, caught, exc, status>>

\* an echo guarded by `if data:`, which answers nothing to an empty datagram
SendSkipEmpty ==
    /\ pc = "send"
    /\ sent' = IF data = <<>> THEN sent ELSE Append(sent, Echo(data, addr))
    /\ pc' = "confirm"
    /\ UNCHANGED <<argv, port, sock, boundAddr, bindCalls, packet_count, data, addr,
                   delivered, out, interrupted, caught, exc, status>>

\* line 38, the send succeeds
Send ==
    /\ pc = "send"
    /\ sent' = Append(sent, Echo(data, addr))
    /\ pc' = "confirm"
    /\ UNCHANGED <<argv, port, sock, boundAddr, bindCalls, packet_count, data, addr,
                   delivered, out, interrupted, caught, exc, status>>

\* line 38, sendto raises OSError
SendError ==
    /\ pc = "send"
    /\ Raise("OSError")
    /\ UNCHANGED <<argv, port, sock, boundAddr, bindCalls, packet_count, data, addr,
                   delivered, sent, out, interrupted, caught, status>>

\* a confirmation line that prints the server's own address
ConfirmOwnPort ==
    /\ pc = "confirm"
    /\ out' = Append(out, [kind |-> "echoed", host |-> WILDCARD, port |-> port])
    /\ pc' = "recv"
    /\ UNCHANGED <<argv, port, sock, boundAddr, bindCalls, packet_count, data, addr,
                   delivered, sent, interrupted, caught, exc, status>>

\* line 39, then back to the top of while True
Confirm ==
    /\ pc = "confirm"
    /\ out' = Append(out, [kind |-> "echoed", host |-> addr.host, port |-> addr.port])
    /\ pc' = "recv"
    /\ UNCHANGED <<argv, port, sock, boundAddr, bindCalls, packet_count, data, addr,
                   delivered, sent, interrupted, caught, exc, status>>

\* the statements inside try (lines 27-39)
InTry == pc \in {"recv", "count", "log", "send", "confirm"}

\* SIGINT: KeyboardInterrupt is raised at the statement about to run; inside
\* try it is caught by line 41, in the finally clause it replaces the pending
\* exception before sock.close() runs, anywhere else it is uncaught
Interrupt ==
    /\ ~interrupted
    /\ pc \notin {"exited", "except"}
    /\ interrupted' = TRUE
    /\ IF InTry
       THEN /\ exc' = "KeyboardInterrupt"
            /\ pc' = "except"
            /\ UNCHANGED status
       ELSE Die("KeyboardInterrupt")
    /\ UNCHANGED <<argv, port, sock, boundAddr, bindCalls, packet_count, data, addr,
                   delivered, sent, out, caught>>

\* lines 41-42
Except ==
    /\ pc = "except"
    /\ caught' = TRUE
    /\ out' = Append(out, [kind |-> "summary", count |-> packet_count])
    /\ exc' = "none"
    /\ pc' = "finally"
    /\ UNCHANGED <<argv, port, sock, boundAddr, bindCalls, packet_count, data, addr,
                   delivered, sent, interrupted, status>>

\* lines 43-44, then the function returns or the pending exception goes on
Finally ==
    /\ pc = "finally"
    /\ sock' = "closed"
    /\ pc' = "exited"
    /\ status' = IF exc = "none" THEN 0 ELSE 1
    /\ UNCHANGED <<argv, port, boundAddr, bindCalls, packet_count, data, addr,
                   delivered, sent, out, interrupted, caught, exc>>

Next ==
    \/ Main
    \/ Socket
    \/ BindOk
    \/ BindFail
    \/ Banner
    \/ InitCount
    \/ Recv
    \/ RecvError
    \/ Count
    \/ Log
    \/ Send
    \/ SendError
    \/ Confirm
    \/ Interrupt
    \/ Except
    \/ Finally

Spec == Init /\ [][Next]_vars

(***************************************************************************)
(* Vocabulary of the properties.                                           *)
(***************************************************************************)
\* the packet blocks printed so far
Blocks == SelectSeq(out, LAMBDA e : e.kind = "packet")

\* the final summary lines printed so far
Summaries == SelectSeq(out, LAMBDA e : e.kind = "summary")

\* the state machine of the listener, read off the program position
Lifecycle ==
    IF pc \in {"main", "socket", "bind"} THEN "STARTING"
    ELSE IF pc \in {"banner", "init", "recv", "count", "log", "send", "confirm"}
    THEN "LISTENING"
    ELSE IF pc = "except" \/ caught THEN "SHUTTING_DOWN"
    ELSE "FAILED"

\* this step is the delivery of the operator's interrupt
InterruptStep == ~interrupted /\ interrupted'

(***************************************************************************)
(* C1  Echo identity: every datagram sent is the echo of the datagram      *)
(* received just before it, to that datagram's source, and for a payload   *)
(* of at most 1024 bytes carries exactly the payload received; at most one *)
(* received datagram is ever waiting for its echo.                         *)
(***************************************************************************)
C1_EchoIdentity ==
    /\ Len(sent) <= Len(delivered)
    /\ Len(delivered) <= Len(sent) + 1
    /\ \A i \in 1..Len(sent) :
          /\ sent[i].addr = delivered[i].addr
          /\ PLen(delivered[i].payload) <= BUFSIZE
                => sent[i].payload = delivered[i].payload

\* a payload of exactly 1024 bytes and one that is not UTF-8 have been echoed
C1_Witness ==
    /\ Len(sent) = 2
    /\ \E i \in 1..2 : PLen(sent[i].payload) = BUFSIZE
    /\ \E i \in 1..2 : sent[i].payload = <<Run(255, 1)>>

(***************************************************************************)
(* C2  Order preservation: the i-th packet block carries sequence number i *)
(* and the source and size of the i-th datagram delivered, the i-th echo   *)
(* answers the i-th datagram delivered, and a datagram is logged and       *)
(* echoed before the next one is received (nothing is batched).            *)
(***************************************************************************)
C2_OrderPreserved ==
    /\ Len(Blocks) <= Len(delivered)
    /\ Len(sent) <= Len(Blocks)
    /\ pc = "recv" => Len(Blocks) = Len(delivered) /\ Len(sent) = Len(delivered)
    /\ \A i \in 1..Len(Blocks) :
          /\ Blocks[i].seq = i
          /\ Blocks[i].host = delivered[i].addr.host
          /\ Blocks[i].port = delivered[i].addr.port
          /\ Blocks[i].size = PLen(Take(delivered[i].payload, BUFSIZE))
    /\ \A i \in 1..Len(sent) :
          sent[i] = [payload |-> Take(delivered[i].payload, BUFSIZE),
                     addr |-> delivered[i].addr]

\* two datagrams from different sources have been logged and echoed
C2_Witness ==
    /\ Len(delivered) = 2
    /\ Len(Blocks) = 2
    /\ Len(sent) = 2
    /\ delivered[1].addr # delivered[2].addr
    /\ delivered[1].payload # delivered[2].payload

(***************************************************************************)
(* C3  Counter.  As claimed: at every state the counter equals the number  *)
(* of datagrams received so far.                                           *)
(***************************************************************************)
C3_CounterEqualsReceived == packet_count = Len(delivered)

(***************************************************************************)
(* C3, amended: the counter starts at 0, changes only by the increment of  *)
(* line 30, by exactly 1, and is never decremented or reset; it equals the *)
(* number of datagrams received so far, except that it is one less from    *)
(* the return of recvfrom until the increment has run, and stays one less  *)
(* when the interrupt arrives in between.                                  *)
(***************************************************************************)
C3_CounterMonotone ==
    /\ [](/\ packet_count \in {Len(delivered) - 1, Len(delivered)}
          /\ packet_count >= 0
          /\ pc = "count" => packet_count = Len(delivered) - 1
          /\ pc \in {"main", "socket", "bind", "banner", "init", "recv",
                     "log", "send", "confirm"} => packet_count = Len(delivered))
    /\ [][\/ packet_count' = packet_count
          \/ /\ packet_count' = packet_count + 1
             /\ pc = "count"
             /\ pc' = "log"]_vars

\* two datagrams have been received and counted
C3_Witness == packet_count = 2 /\ Len(delivered) = 2 /\ pc = "recv"

(***************************************************************************)
(* C4  Clean shutdown, as claimed: once a process that had bound its       *)
(* socket has exited after the interrupt, it has printed exactly one       *)
(* summary line, stating the number of datagrams received, its status is   *)
(* 0 and its socket has been closed.                                       *)
(***************************************************************************)
C4_CleanShutdown ==
    (pc = "exited" /\ interrupted /\ boundAddr # NoAddr) =>
        /\ Summaries = <<[kind |-> "summary", count |-> Len(delivered)]>>
        /\ status = 0
        /\ sock = "closed"

(***************************************************************************)
(* C5  Socket release, as claimed: in every terminated state the socket    *)
(* the process created has been closed.                                    *)
(***************************************************************************)
C5_SocketReleased == (pc = "exited" /\ sock # "none") => sock = "closed"

(***************************************************************************)
(* C6  Lifecycle, as claimed: every step that leaves LISTENING enters      *)
(* SHUTTING_DOWN and is the delivery of the interrupt.                     *)
(***************************************************************************)
C6_OnlyInterruptLeavesListening ==
    [][(Lifecycle = "LISTENING" /\ Lifecycle' # "LISTENING")
          => (Lifecycle' = "SHUTTING_DOWN" /\ InterruptStep)]_vars

(***************************************************************************)
(* C6, amended: a successful bind puts the process in LISTENING;           *)
(* SHUTTING_DOWN is entered only from LISTENING and only by the interrupt, *)
(* and is never left; the process leaves LISTENING otherwise only by       *)
(* terminating abnormally, on an OSError raised by recvfrom or sendto or   *)
(* on an interrupt delivered before the try block is entered (banner,      *)
(* line 24).  No payload content, size, source, number of packets or idle  *)
(* period makes it leave LISTENING.                                        *)
(***************************************************************************)
C6_Lifecycle ==
    [][/\ (pc = "bind" /\ sock' = "bound") => Lifecycle' = "LISTENING"
       /\ (Lifecycle # "SHUTTING_DOWN" /\ Lifecycle' = "SHUTTING_DOWN")
             => (Lifecycle = "LISTENING" /\ InterruptStep /\ InTry)
       /\ Lifecycle = "SHUTTING_DOWN" => Lifecycle' = "SHUTTING_DOWN"
       /\ (Lifecycle = "LISTENING" /\ Lifecycle' # "LISTENING")
             => \/ InterruptStep /\ InTry /\ Lifecycle' = "SHUTTING_DOWN"
                \/ InterruptStep /\ ~InTry /\ Lifecycle' = "FAILED"
                \/ pc \in {"recv", "send"} /\ exc' = "OSError" /\ Lifecycle' = "FAILED"
      ]_vars

\* the interrupt ended a run that had echoed a datagram; another run is
\* still listening after two datagrams, one of them empty
C6_Witness ==
    \/ /\ Lifecycle = "SHUTTING_DOWN"
       /\ pc = "exited"
       /\ Len(sent) >= 1
    \/ /\ Lifecycle = "LISTENING"
       /\ Len(sent) = 2
       /\ \E i \in 1..2 : sent[i].payload = <<>>

(***************************************************************************)
(* C7  Decode robustness: no payload makes the decode of line 35 raise;    *)
(* every datagram that reaches the send has its packet block, whose text   *)
(* is the payload decoded with replacement characters; the bytes echoed    *)
(* are the bytes received, whether or not they are valid UTF-8; and from   *)
(* the log the loop goes to the send and from the confirmation back to     *)
(* the receive, unless the interrupt arrives.                              *)
(***************************************************************************)
C7_DecodeRobust ==
    /\ [](/\ exc # "UnicodeDecodeError"
          /\ Len(sent) <= Len(Blocks)
          /\ pc \in {"send", "confirm"} => Len(Blocks) = Len(delivered)
          /\ \A i \in 1..Len(Blocks) :
                Blocks[i].text = DecodeReplace(Take(delivered[i].payload, BUFSIZE))
          /\ \A i \in 1..Len(sent) :
                sent[i].payload = Take(delivered[i].payload, BUFSIZE))
    /\ [][/\ (pc = "log" /\ ~InterruptStep) => pc' = "send"
          /\ (pc = "confirm" /\ ~InterruptStep) => pc' = "recv"]_vars

\* a lone 0xFF was logged with a replacement character, echoed as received,
\* and the loop is back at the receive
C7_Witness ==
    /\ pc = "recv"
    /\ Len(sent) >= 1
    /\ sent[1].payload = <<Run(255, 1)>>
    /\ Blocks[1].text = <<[c |-> REPLACEMENT, n |-> 1]>>
    /\ Lifecycle = "LISTENING"

(***************************************************************************)
(* C8  Invalid port argument, as claimed: when the first argument is not   *)
(* an integer in 1..65535, no socket is ever created or bound, nothing is  *)
(* printed or received, and the exit status is not 0.                      *)
(***************************************************************************)
C8_InvalidPortRejected ==
    (Len(argv) > 0 /\ (~PyInt(argv[1]).ok \/ PyInt(argv[1]).val < 1
                                          \/ PyInt(argv[1]).val > 65535))
        => /\ sock = "none"
           /\ bindCalls = <<>>
           /\ out = <<>>
           /\ delivered = <<>>
           /\ pc = "exited" => status # 0

(***************************************************************************)
(* C9  Bind failure: the process calls bind at most once, on the wildcard  *)
(* address and the requested port; when that call has failed the process   *)
(* has exited with a non-zero status and has printed, received and sent    *)
(* nothing.                                                                *)
(***************************************************************************)
C9_BindFailureFatal ==
    /\ Len(bindCalls) <= 1
    /\ \A i \in 1..Len(bindCalls) :
          bindCalls[i] = [host |-> WILDCARD, port |-> ParsePort(argv).val]
    /\ (bindCalls # <<>> /\ boundAddr = NoAddr)
          => /\ pc = "exited"
             /\ status # 0
             /\ exc \in {"OSError", "OverflowError"}
             /\ out = <<>>
             /\ delivered = <<>>
             /\ sent = <<>>

\* the bind of port 8080 failed with OSError and the process is gone
C9_Witness ==
    /\ pc = "exited"
    /\ exc = "OSError"
    /\ boundAddr = NoAddr
    /\ bindCalls = <<[host |-> WILDCARD, port |-> 8080]>>

(***************************************************************************)
(* C10  Port selection, as claimed: the socket is bound to the wildcard    *)
(* address and to port 9999 without arguments, else to the integer value   *)
(* of the first argument.                                                  *)
(***************************************************************************)
C10_PortSelection ==
    boundAddr # NoAddr =>
        /\ boundAddr.host = WILDCARD
        /\ boundAddr.port = IF Len(argv) = 0 THEN 9999 ELSE PyInt(argv[1]).val

(***************************************************************************)
(* C11  Interrupt leads to the shutdown sequence, as claimed: after the    *)
(* interrupt nothing more is received or sent, and once a process that     *)
(* had created its socket has exited after an interrupt, it has printed    *)
(* the summary line exactly once, with the counter's value, and has closed *)
(* the socket.                                                             *)
(***************************************************************************)
C11_InterruptShutsDown ==
    /\ []((interrupted /\ pc = "exited" /\ sock # "none") =>
            /\ Summaries = <<[kind |-> "summary", count |-> packet_count]>>
            /\ sock = "closed")
    /\ [][interrupted => (delivered' = delivered /\ sent' = sent)]_vars

(***************************************************************************)
(* C12  Strict alternation: a datagram is received only when every earlier *)
(* one has been echoed, and an echo is sent only when exactly one received *)
(* datagram is waiting for it, one echo at a time; so the first network    *)
(* operation is a receive, and in every state, terminated ones included,   *)
(* the number of echoes sent is the packet counter or one less.            *)
(***************************************************************************)
C12_StrictAlternation ==
    /\ [](/\ Len(sent) \in {packet_count - 1, packet_count}
          /\ Len(delivered) \in {Len(sent), Len(sent) + 1})
    /\ [][/\ delivered' # delivered
             => /\ Len(delivered) = Len(sent)
                /\ Len(delivered') = Len(delivered) + 1
                /\ sent' = sent
          /\ sent' # sent
             => /\ Len(delivered) = Len(sent) + 1
                /\ Len(sent') = Len(sent) + 1
                /\ delivered' = delivered]_vars

\* receive, send, receive, send have happened and the process has exited
\* after an interrupt; or a second datagram was counted and its echo failed
C12_Witness ==
    \/ /\ pc = "exited"
       /\ interrupted
       /\ Len(sent) = 2
       /\ packet_count = 2
    \/ /\ pc = "exited"
       /\ exc = "OSError"
       /\ Len(sent) = 1
       /\ packet_count = 2

\* the datagram received last is longer than the receive buffer
LastOversized(d) == d # <<>> /\ PLen(d[Len(d)].payload) > BUFSIZE

(***************************************************************************)
(* C13  Oversized datagrams are truncated, not rejected: the receive of a  *)
(* datagram longer than 1024 bytes raises nothing and yields 1024 bytes;   *)
(* the datagram is counted once, its block shows its own sequence number   *)
(* and size 1024, its echo is the first 1024 bytes of the payload, sent to *)
(* its source, and after the confirmation the loop is back at the receive. *)
(***************************************************************************)
C13_OversizedTruncated ==
    /\ [](\A i \in 1..Len(delivered) :
             PLen(delivered[i].payload) > BUFSIZE =>
                /\ i <= Len(Blocks) => (Blocks[i].seq = i /\ Blocks[i].size = BUFSIZE)
                /\ i <= Len(sent) =>
                      /\ sent[i].addr = delivered[i].addr
                      /\ PLen(sent[i].payload) = BUFSIZE
                      /\ sent[i].payload = Take(delivered[i].payload, BUFSIZE))
    /\ [][/\ (delivered' # delivered /\ LastOversized(delivered'))
             => (pc' = "count" /\ exc' = "none" /\ PLen(data') = BUFSIZE)
          /\ (LastOversized(delivered) /\ ~InterruptStep)
             => /\ pc = "count" => (packet_count' = packet_count + 1 /\ pc' = "log")
                /\ pc = "log" => (pc' = "send" /\ packet_count' = packet_count)
                /\ pc = "confirm" => (pc' = "recv" /\ packet_count' = Len(delivered))
         ]_vars

\* a 1025-byte datagram whose last character straddles the cut was echoed
\* as its first 1024 bytes and the loop is back at the receive
C13_Witness ==
    /\ pc = "recv"
    /\ Len(sent) >= 1
    /\ delivered[1].payload = <<Run(65, BUFSIZE - 1), Run(195, 1), Run(169, 1)>>
    /\ sent[1].payload = <<Run(65, BUFSIZE - 1), Run(195, 1)>>
    /\ Blocks[1].size = 1024

(***************************************************************************)
(* C14  Network errors are fatal: a receive that hands over no datagram    *)
(* and a send that puts none on the wire, other than by the interrupt,     *)
(* raise OSError out of the loop; from then on nothing is received, sent   *)
(* or printed (no summary line), the next step ends the process, and when  *)
(* the error is what ends it the socket has been closed and the status is  *)
(* not 0.  A datagram whose echo failed has been counted.                  *)
(***************************************************************************)
C14_NetworkErrorFatal ==
    /\ []((exc = "OSError" /\ boundAddr # NoAddr) =>
             /\ pc \in {"finally", "exited"}
             /\ Summaries = <<>>
             /\ ~caught
             /\ pc = "exited" => (sock = "closed" /\ status > 0)
             /\ Len(delivered) > Len(sent) => packet_count = Len(delivered))
    /\ [][/\ (pc = "recv" /\ delivered' = delivered /\ ~InterruptStep)
             => (exc' = "OSError" /\ pc' = "finally")
          /\ (pc = "send" /\ sent' = sent /\ ~InterruptStep)
             => (exc' = "OSError" /\ pc' = "finally")
          /\ exc = "OSError"
             => (delivered' = delivered /\ sent' = sent /\ out' = out /\ pc' = "exited")
         ]_vars

\* the echo of the second datagram failed: the process is gone with status
\* 1, the socket closed, both datagrams counted, one echoed, no summary
C14_Witness ==
    /\ pc = "exited"
    /\ exc = "OSError"
    /\ boundAddr # NoAddr
    /\ sock = "closed"
    /\ status = 1
    /\ Len(delivered) = 2
    /\ Len(sent) = 1
    /\ packet_count = 2
    /\ Summaries = <<>>

\* the confirmation lines printed so far
Echoed == SelectSeq(out, LAMBDA e : e.kind = "echoed")

\* the per-packet output: blocks and confirmation lines, in print order
PacketLines == SelectSeq(out, LAMBDA e : e.kind \in {"packet", "echoed"})

(***************************************************************************)
(* C15  Per-packet log ordering: echo n is never sent before block n is    *)
(* printed, confirmation n is never printed before echo n is sent and      *)
(* names the host and port echo n went to; there is at most one            *)
(* confirmation per echo, and blocks and confirmations alternate on the    *)
(* output, a block first.                                                  *)
(***************************************************************************)
C15_LogOrdering ==
    /\ Len(Echoed) <= Len(sent)
    /\ Len(sent) <= Len(Echoed) + 1
    /\ Len(sent) <= Len(Blocks)
    /\ Len(Blocks) <= Len(sent) + 1
    /\ \A i \in 1..Len(Echoed) :
          /\ Echoed[i].host = sent[i].addr.host
          /\ Echoed[i].port = sent[i].addr.port
    /\ \A i \in 1..Len(sent) : Blocks[i].seq = i
    /\ \A k \in 1..Len(PacketLines) :
          PacketLines[k].kind = IF k % 2 = 1 THEN "packet" ELSE "echoed"

\* two echoes to different sources have been confirmed
C15_Witness ==
    /\ Len(Echoed) = 2
    /\ Len(sent) = 2
    /\ sent[1].addr # sent[2].addr
    /\ Echoed[2].port = sent[2].addr.port

\* the datagram received last has no payload
LastEmpty(d) == d # <<>> /\ d[Len(d)].payload = <<>>

(***************************************************************************)
(* C16  A zero-length datagram is an ordinary datagram: its receive leaves *)
(* the process in the loop with empty data; it is then counted (+1),       *)
(* logged with its sequence number and size 0, answered with an empty      *)
(* datagram to its source, and the process is still LISTENING, back at the *)
(* receive, unless the interrupt arrives or the send fails.                *)
(***************************************************************************)
C16_EmptyDatagramOrdinary ==
    /\ [](\A i \in 1..Len(delivered) :
             delivered[i].payload = <<>> =>
                /\ i <= Len(Blocks) => (Blocks[i].seq = i /\ Blocks[i].size = 0)
                /\ i <= Len(sent) =>
                      sent[i] = [payload |-> <<>>, addr |-> delivered[i].addr])
    /\ [][/\ (delivered' # delivered /\ LastEmpty(delivered'))
             => (pc' = "count" /\ data' = <<>> /\ Lifecycle' = "LISTENING")
          /\ (InTry /\ LastEmpty(delivered) /\ ~InterruptStep /\ exc' = "none")
             => /\ Lifecycle' = "LISTENING"
                /\ pc = "count" => (packet_count' = packet_count + 1 /\ pc' = "log")
                /\ pc = "log" => (Len(out') = Len(out) + 1 /\ pc' = "send")
                /\ pc = "send" => (Len(sent') = Len(sent) + 1 /\ pc' = "confirm")
                /\ pc = "confirm" => pc' = "recv"
         ]_vars

\* an empty datagram was counted, logged with size 0 and echoed empty, and
\* the process is waiting for the next datagram
C16_Witness ==
    /\ pc = "recv"
    /\ Lifecycle = "LISTENING"
    /\ Len(delivered) = 1
    /\ delivered[1].payload = <<>>
    /\ packet_count = 1
    /\ Blocks[1].size = 0
    /\ sent = <<[payload |-> <<>>, addr |-> delivered[1].addr]>>

====
